---- MODULE Spec2Model ----
(***************************************************************************)
(* Dubai Real Estate Pattern Recommender (src/app.py).                     *)
(*                                                                         *)
(* The model follows one Streamlit script run: the sidebar form is         *)
(* submitted, the transactions are filtered, gated on their number,        *)
(* grouped by calendar quarter, turned into QoQ / YoY percentage changes   *)
(* and an off-plan share, classified into five tags and looked up in the   *)
(* pattern matrix.                                                         *)
(*                                                                         *)
(* Numbers that the script holds as float64 are modelled as exact          *)
(* rationals extended with the IEEE-754 specials +inf, -inf and NaN,       *)
(* because pandas/numpy arithmetic on them does not raise on division by   *)
(* zero.  The values that occur here are ratios of small integers, for     *)
(* which the float64 comparisons against 5, -5, 0.5 and 0.2 agree with the *)
(* exact comparisons.                                                      *)
(***************************************************************************)
EXTENDS Integers, Sequences, FiniteSets, TLC

(***************************************************************************)
(* float64 values                                                          *)
(***************************************************************************)
Fin(n, d) == [k |-> "fin", n |-> n, d |-> d]

PosInf == [k |-> "inf", n |-> 0, d |-> 1]

NegInf == [k |-> "ninf", n |-> 0, d |-> 1]

NaN == [k |-> "nan", n |-> 0, d |-> 1]

IsNaN(a) == a.k = "nan"

IsFinite(a) == a.k = "fin"

\* the sign of a float: -1, 0 or 1 (NaN has none and is never asked)
Sign(a) ==
    CASE a.k = "inf" -> 1
      [] a.k = "ninf" -> -1
      [] OTHER -> IF a.n > 0 THEN 1 ELSE IF a.n < 0 THEN -1 ELSE 0

\* a > b as float64 compares: every comparison with NaN is False
FGt(a, b) ==
    CASE IsNaN(a) \/ IsNaN(b) -> FALSE
      [] a.k = "inf" -> b.k # "inf"
      [] a.k = "ninf" -> FALSE
      [] b.k = "inf" -> FALSE
      [] b.k = "ninf" -> TRUE
      [] OTHER -> a.n * b.d > b.n * a.d

FLt(a, b) == FGt(b, a)

\* a <= b as float64 compares
FLe(a, b) ==
    CASE IsNaN(a) \/ IsNaN(b) -> FALSE
      [] OTHER -> ~FGt(a, b)

\* a - b
FSub(a, b) ==
    CASE IsNaN(a) \/ IsNaN(b) -> NaN
      [] IsFinite(a) /\ IsFinite(b) -> Fin(a.n * b.d - b.n * a.d, a.d * b.d)
      [] IsFinite(a) -> IF b.k = "inf" THEN NegInf ELSE PosInf
      [] IsFinite(b) -> a
      [] OTHER -> IF a.k = b.k THEN NaN ELSE a

\* a / b on numpy float64 scalars: a zero divisor yields +-inf or NaN (with a
\* RuntimeWarning), it does not raise
FDiv(a, b) ==
    CASE IsNaN(a) \/ IsNaN(b) -> NaN
      [] IsFinite(b) /\ b.n = 0 ->
            IF Sign(a) > 0 THEN PosInf ELSE IF Sign(a) < 0 THEN NegInf ELSE NaN
      [] IsFinite(a) /\ IsFinite(b) ->
            IF b.n > 0 THEN Fin(a.n * b.d, a.d * b.n)
                       ELSE Fin(-(a.n * b.d), -(a.d * b.n))
      [] IsFinite(a) -> Fin(0, 1)
      [] IsFinite(b) -> IF Sign(a) * Sign(b) > 0 THEN PosInf ELSE NegInf
      [] OTHER -> NaN

\* a * c for an integer constant c > 0
FMul(a, c) ==
    CASE IsFinite(a) -> Fin(a.n * c, a.d)
      [] OTHER -> a

\* ((latest - reference) / reference) * 100
PctChange(latest, reference) == FMul(FDiv(FSub(latest, reference), reference), 100)

(***************************************************************************)
(* 4. CLASSIFIERS                                                          *)
(***************************************************************************)
ChangeThreshold == 5

classify_change_ge(val) ==
    IF ~FLt(val, Fin(ChangeThreshold, 1)) /\ ~IsNaN(val) THEN "Up"
    ELSE IF FLt(val, Fin(-ChangeThreshold, 1)) THEN "Down"
    ELSE "Flat"

classify_change(val) ==
    IF FGt(val, Fin(ChangeThreshold, 1)) THEN "Up"
    ELSE IF FLt(val, Fin(-ChangeThreshold, 1)) THEN "Down"
    ELSE "Flat"

\* 0.5 and 0.2 as fractions
OffplanHigh == Fin(1, 2)

OffplanMedium == Fin(1, 5)

classify_offplan_ge(pct) ==
    IF FGt(pct, OffplanHigh) THEN "High"
    ELSE IF ~FLt(pct, OffplanMedium) /\ ~IsNaN(pct) THEN "Medium"
    ELSE "Low"

classify_offplan(pct) ==
    IF FGt(pct, OffplanHigh) THEN "High"
    ELSE IF FGt(pct, OffplanMedium) THEN "Medium"
    ELSE "Low"

(***************************************************************************)
(* State                                                                   *)
(***************************************************************************)
VARIABLES
    transactions,     \* rows of transactions.parquet
    csv,              \* rows of PatternMatrix.csv as read_csv yields them
    pc,               \* position of the script run
    submit,           \* st.form_submit_button("Run Analysis")
    selected_areas, selected_types, selected_rooms, budget, view_mode,
    df_filtered,      \* load_and_filter_data(...)
    grouped,          \* the quarterly buckets
    latest, previous, year_ago,
    qoq_price, qoq_volume, yoy_price, yoy_volume, offplan_pct,
    tag_qoq_price, tag_yoy_price, tag_qoq_vol, tag_yoy_vol, tag_offplan,
    pattern,          \* result of get_pattern_insight
    messages,         \* what the page shows, in order
    steps,            \* the computations this run has performed
    fn, arg, ret      \* a direct call of one of the script's functions

formVars == <<submit, selected_areas, selected_types, selected_rooms, budget, view_mode>>

signalVars == <<latest, previous, year_ago, qoq_price, qoq_volume, yoy_price, yoy_volume, offplan_pct>>

tagVars == <<tag_qoq_price, tag_yoy_price, tag_qoq_vol, tag_yoy_vol, tag_offplan>>

callVars == <<fn, arg, ret>>

vars == <<transactions, csv, pc, formVars, df_filtered, grouped, signalVars, tagVars,
          pattern, messages, steps, callVars>>

(***************************************************************************)
(* Transactions                                                            *)
(***************************************************************************)
\* instance_date: a raw value is a string that parses to a day of quarter q,
\* or one that does not parse
RawDate(q) == [parsable |-> TRUE, q |-> q]

BadDate == [parsable |-> FALSE, q |-> 0]

NaT == [nat |-> TRUE, q |-> 0]

\* pd.to_datetime(..., errors="coerce"), at the granularity of the quarter
to_datetime(raw) == IF raw.parsable THEN [nat |-> FALSE, q |-> raw.q] ELSE NaT

OffPlan == "Off-Plan Properties"

Existing == "Existing Properties"

Txn(area, type, rooms, worth, date, reg) ==
    [area_name_en |-> area, property_type_en |-> type, rooms_en |-> rooms,
     actual_worth |-> worth, instance_date |-> date, reg_type_en |-> reg,
     transaction_id |-> 0]

\* 3. FILTERED DATA
load_and_filter_data(areas, types, rooms, max_price) ==
    LET df0 == [i \in 1..Len(transactions) |->
                  [transactions[i] EXCEPT !.instance_date = to_datetime(@)]]
        df1 == IF areas # {} THEN SelectSeq(df0, LAMBDA r : r.area_name_en \in areas) ELSE df0
        df2 == IF types # {} THEN SelectSeq(df1, LAMBDA r : r.property_type_en \in types) ELSE df1
        df3 == IF rooms # {} THEN SelectSeq(df2, LAMBDA r : r.rooms_en \in rooms) ELSE df2
    IN  SelectSeq(df3, LAMBDA r : FLe(r.actual_worth, Fin(max_price, 1)))

(***************************************************************************)
(* Quarterly aggregation                                                   *)
(***************************************************************************)
RECURSIVE SumWorth(_)
SumWorth(df) == IF df = <<>> THEN 0 ELSE Head(df).actual_worth.n + SumWorth(Tail(df))

\* Series.mean(): NaN cells are skipped, the mean of nothing is NaN
MeanWorth(df) ==
    LET vals == SelectSeq(df, LAMBDA r : ~IsNaN(r.actual_worth))
    IN  IF vals = <<>> THEN NaN ELSE Fin(SumWorth(vals), Len(vals))

\* Series.count(): the number of non-null cells
CountIds(df) == Len(SelectSeq(df, LAMBDA r : r.transaction_id # 0))

InQuarter(df, q) == SelectSeq(df, LAMBDA r : ~r.instance_date.nat /\ r.instance_date.q = q)

Bucket(df, q) ==
    [quarter |-> q, avg_price |-> MeanWorth(InQuarter(df, q)),
     volume |-> Fin(CountIds(InQuarter(df, q)), 1)]

\* DataFrame.dropna(): the rows without a NaN cell
dropna(g) == SelectSeq(g, LAMBDA b : ~IsNaN(b.avg_price) /\ ~IsNaN(b.volume))

\* groupby(pd.Grouper(key="instance_date", freq="Q")).agg(...): rows with a NaT
\* key are left out, and there is one bin for every quarter from the first to
\* the last one present, the empty ones with mean NaN and count 0
Resample(df) ==
    LET qs == {df[i].instance_date.q : i \in {j \in 1..Len(df) : ~df[j].instance_date.nat}}
    IN  IF qs = {} THEN <<>>
        ELSE LET lo == CHOOSE q \in qs : \A r \in qs : q <= r
                 hi == CHOOSE q \in qs : \A r \in qs : q >= r
             IN  [i \in 1..(hi - lo + 1) |-> Bucket(df, lo + i - 1)]

GroupedPadded(df) == Resample(df)

Grouped(df) == dropna(Resample(df))

(***************************************************************************)
(* Change signals                                                          *)
(***************************************************************************)
\* Python's seq[i] / DataFrame.iloc[i] for a negative i
Iloc(g, i) == g[Len(g) + i + 1]

MinRecords == 10

MinQuarters == 2

YearBuckets == 5

\* len(df_filtered) < 10 is False
EnoughRecordsNine(df) == ~(Len(df) < MinRecords - 1)

EnoughRecords(df) == ~(Len(df) < MinRecords)

\* len(grouped) >= 2
EnoughQuarters(g) == Len(g) >= MinQuarters

\* grouped.iloc[-5] if len(grouped) >= 5 else previous
YearAgoFour(g) == IF Len(g) >= YearBuckets - 1 THEN Iloc(g, -(YearBuckets - 1)) ELSE Iloc(g, -2)

YearAgo(g) == IF Len(g) >= YearBuckets THEN Iloc(g, -YearBuckets) ELSE Iloc(g, -2)

\* df_filtered[df_filtered["instance_date"].dt.to_period("Q") == latest_qtr.to_period("Q")]
LatestQuarterRows(df, g) == InQuarter(df, Iloc(g, -1).quarter)

\* Series.eq("Off-Plan Properties").mean(): a mean of booleans, NaN when empty
OffplanShareAll(df, g) ==
    IF df = <<>> THEN NaN
    ELSE Fin(Len(SelectSeq(df, LAMBDA r : r.reg_type_en = OffPlan)), Len(df))

OffplanShare(df, g) ==
    LET df_latest_qtr == LatestQuarterRows(df, g)
    IN  IF df_latest_qtr = <<>> THEN NaN
        ELSE Fin(Len(SelectSeq(df_latest_qtr, LAMBDA r : r.reg_type_en = OffPlan)),
                 Len(df_latest_qtr))

(***************************************************************************)
(* Pattern matrix                                                          *)
(***************************************************************************)
\* a cell of a text column as read_csv yields it: a string or NaN
Text(s) == [null |-> FALSE, s |-> s]

NullCell == [null |-> TRUE, s |-> <<>>]

\* Series.astype(str)
astype_str(cell) == IF cell.null THEN <<"n", "a", "n">> ELSE cell.s

\* str.replace('\\n', '\n'): every non-overlapping backslash-n pair, from the
\* left, becomes one line break
RECURSIVE ReplaceFirstOnly(_)
ReplaceFirstOnly(x) ==
    IF Len(x) < 2 THEN x
    ELSE IF x[1] = "\\" /\ x[2] = "n" THEN <<"\n">> \o SubSeq(x, 3, Len(x))
    ELSE <<x[1]>> \o ReplaceFirstOnly(Tail(x))

RECURSIVE Replace(_)
Replace(x) ==
    IF Len(x) < 2 THEN x
    ELSE IF x[1] = "\\" /\ x[2] = "n" THEN <<"\n">> \o Replace(SubSeq(x, 3, Len(x)))
    ELSE <<x[1]>> \o Replace(Tail(x))

UnescapeFirstOnly(cell) == ReplaceFirstOnly(astype_str(cell))

Unescape(cell) == Replace(astype_str(cell))

load_pattern_matrix ==
    [i \in 1..Len(csv) |->
        [csv[i] EXCEPT !.Insight_Investor = Unescape(@),
                       !.Recommendation_Investor = Unescape(@),
                       !.Insight_EndUser = Unescape(@),
                       !.Recommendation_EndUser = Unescape(@)]]

NoRow ==
    [QoQ_Price |-> "", YoY_Price |-> "", QoQ_Volume |-> "", YoY_Vol |-> "",
     Offplan_Level |-> "", Insight_Investor |-> <<>>, Recommendation_Investor |-> <<>>,
     Insight_EndUser |-> <<>>, Recommendation_EndUser |-> <<>>]

\* Python's None
None == [found |-> FALSE, row |-> NoRow]

Some(row) == [found |-> TRUE, row |-> row]

get_pattern_insight_any(qp, yp, qv, yv, op) ==
    LET pattern_matrix == load_pattern_matrix
        match == SelectSeq(pattern_matrix, LAMBDA r :
                    \/ r.QoQ_Price = classify_change(qp)
                    \/ r.YoY_Price = classify_change(yp)
                    \/ r.QoQ_Volume = classify_change(qv)
                    \/ r.YoY_Vol = classify_change(yv)
                    \/ r.Offplan_Level = classify_offplan(op))
    IN  IF match # <<>> THEN Some(match[1]) ELSE None

get_pattern_insight(qp, yp, qv, yv, op) ==
    LET pattern_matrix == load_pattern_matrix
        match == SelectSeq(pattern_matrix, LAMBDA r :
                    /\ r.QoQ_Price = classify_change(qp)
                    /\ r.YoY_Price = classify_change(yp)
                    /\ r.QoQ_Volume = classify_change(qv)
                    /\ r.YoY_Vol = classify_change(yv)
                    /\ r.Offplan_Level = classify_offplan(op))
    IN  IF match # <<>> THEN Some(match[1]) ELSE None

\* pattern[f'Insight_{view_mode}'] and pattern[f'Recommendation_{view_mode}']
InsightOfInvestor(row, view) == row.Insight_Investor

InsightOf(row, view) ==
    IF view = "Investor" THEN row.Insight_Investor ELSE row.Insight_EndUser

RecommendationOf(row, view) ==
    IF view = "Investor" THEN row.Recommendation_Investor ELSE row.Recommendation_EndUser

(***************************************************************************)
(* Inputs                                                                  *)
(***************************************************************************)
NumQuarters == 5

MaxNaT == 5

BlockKinds == {"none", "steady", "mixed", "free"}

\* the rows one quarter contributes to the parquet file
Block(kind, q) ==
    CASE kind = "steady" ->
            <<Txn("Marina", "Unit", "1 B/R", Fin(100, 1), RawDate(q), OffPlan),
              Txn("Marina", "Unit", "1 B/R", Fin(100, 1), RawDate(q), Existing),
              Txn("Marina", "Unit", "Studio", Fin(100, 1), RawDate(q), Existing),
              Txn("Marina", "Unit", "Studio", Fin(100, 1), RawDate(q), Existing),
              Txn("Marina", "Unit", "3 B/R", Fin(100, 1), RawDate(q), Existing)>>
      [] kind = "mixed" ->
            <<Txn("Marina", "Unit", "1 B/R", Fin(120, 1), RawDate(q), Existing),
              Txn("JVC", "Unit", "Studio", Fin(100, 1), RawDate(q), OffPlan)>>
      [] kind = "free" ->
            <<Txn("Marina", "Unit", "1 B/R", Fin(0, 1), RawDate(q), OffPlan),
              Txn("Marina", "Unit", "Studio", Fin(0, 1), RawDate(q), Existing),
              Txn("Marina", "Unit", "Studio", Fin(0, 1), RawDate(q), OffPlan)>>
      [] OTHER -> <<>>

\* later quarters first: the file is not sorted by date
RECURSIVE Blocks(_, _)
Blocks(layout, q) ==
    IF q > NumQuarters THEN <<>> ELSE Blocks(layout, q + 1) \o Block(layout[q], q)

\* rows whose instance_date does not parse
Undated(n) == [i \in 1..n |-> Txn("Marina", "Unit", "1 B/R", Fin(100, 1), BadDate, Existing)]

\* a row without a price, dated in the first quarter
Unpriced == Txn("Marina", "Unit", "1 B/R", NaN, RawDate(1), OffPlan)

WithIds(df) == [i \in 1..Len(df) |-> [df[i] EXCEPT !.transaction_id = i]]

Parquet(layout, n) == WithIds(<<Unpriced>> \o Undated(n) \o Blocks(layout, 1))

Parquets == {Parquet(layout, n) : layout \in [1..NumQuarters -> BlockKinds], n \in {0, MaxNaT}}

\* what the three multiselects of the form hold: nothing, or a choice that
\* each of the three filters narrows
Selections == {<<{}, {}, {}>>, <<{"Marina"}, {"Unit"}, {"1 B/R", "Studio"}>>}

Budgets == {100, 120}

ViewModes == {"Investor", "EndUser"}

Rule(qp, yp, qv, yv, op, name) ==
    [QoQ_Price |-> qp, YoY_Price |-> yp, QoQ_Volume |-> qv, YoY_Vol |-> yv,
     Offplan_Level |-> op,
     Insight_Investor |-> Text(<<name, "\\", "n", "i">>),
     Recommendation_Investor |-> Text(<<name, "\\", "n", "r">>),
     Insight_EndUser |-> Text(<<name, "\n", "I", "\\", "n">>),
     Recommendation_EndUser |-> Text(<<name, "R">>)]

\* the pattern matrix the script runs are checked with
PatternMatrix ==
    <<Rule("Flat", "Flat", "Flat", "Flat", "Low", "a"),
      Rule("Up", "Up", "Up", "Up", "High", "b"),
      Rule("Up", "Up", "Down", "Down", "Medium", "c"),
      Rule("Down", "Down", "Up", "Up", "Low", "d"),
      Rule("Flat", "Flat", "Up", "Up", "Low", "e"),
      Rule("Flat", "Flat", "Flat", "Flat", "Low", "f")>>

NoBucket == [quarter |-> 0, avg_price |-> NaN, volume |-> NaN]

(***************************************************************************)
(* The script run                                                          *)
(***************************************************************************)
\* the page before the form is submitted (lines 183-184)
Fresh ==
    /\ pc = "idle"
    /\ submit = FALSE
    /\ selected_areas = {} /\ selected_types = {} /\ selected_rooms = {}
    /\ budget = 0
    /\ view_mode = "Investor"
    /\ df_filtered = <<>>
    /\ grouped = <<>>
    /\ latest = NoBucket /\ previous = NoBucket /\ year_ago = NoBucket
    /\ qoq_price = NaN /\ qoq_volume = NaN /\ yoy_price = NaN /\ yoy_volume = NaN
    /\ offplan_pct = NaN
    /\ tag_qoq_price = "" /\ tag_yoy_price = "" /\ tag_qoq_vol = "" /\ tag_yoy_vol = ""
    /\ tag_offplan = ""
    /\ pattern = None
    /\ messages = <<[kind |-> "info", text |-> <<"begin">>]>>
    /\ steps = {}

Init ==
    /\ transactions \in Parquets
    /\ csv = PatternMatrix
    /\ Fresh
    /\ fn = "" /\ arg = <<>> /\ ret = <<>>

Show(kind, text) == [kind |-> kind, text |-> text]

\* lines 34-40 and 101-106: the form is submitted and the data filtered
RunAnalysis(areas, types, rooms, max_price, view) ==
    /\ pc = "idle"
    /\ submit' = TRUE
    /\ selected_areas' = areas /\ selected_types' = types /\ selected_rooms' = rooms
    /\ budget' = max_price /\ view_mode' = view
    /\ df_filtered' = load_and_filter_data(areas, types, rooms, max_price)
    /\ messages' = <<Show("success", <<"matched">>)>>
    /\ steps' = {"filter"}
    /\ pc' = "filtered"
    /\ UNCHANGED <<transactions, csv, grouped, signalVars, tagVars, pattern, callVars>>

\* lines 108-110
NotEnoughData ==
    /\ pc = "filtered"
    /\ ~EnoughRecords(df_filtered)
    /\ messages' = Append(messages, Show("warning", <<"Not enough data to calculate trends.">>))
    /\ pc' = "stopped"
    /\ UNCHANGED <<transactions, csv, formVars, df_filtered, grouped, signalVars, tagVars,
                   pattern, steps, callVars>>

\* lines 112-115
Aggregate ==
    /\ pc = "filtered"
    /\ EnoughRecords(df_filtered)
    /\ grouped' = Grouped(df_filtered)
    /\ steps' = steps \cup {"aggregate"}
    /\ pc' = "aggregated"
    /\ UNCHANGED <<transactions, csv, formVars, df_filtered, signalVars, tagVars, pattern,
                   messages, callVars>>

\* lines 181-182
NotEnoughQuarters ==
    /\ pc = "aggregated"
    /\ ~EnoughQuarters(grouped)
    /\ messages' = Append(messages, Show("warning", <<"Not enough quarterly data.">>))
    /\ pc' = "done"
    /\ UNCHANGED <<transactions, csv, formVars, df_filtered, grouped, signalVars, tagVars,
                   pattern, steps, callVars>>

\* lines 117-135
ComputeChanges ==
    /\ pc = "aggregated"
    /\ EnoughQuarters(grouped)
    /\ latest' = Iloc(grouped, -1)
    /\ previous' = Iloc(grouped, -2)
    /\ qoq_price' = PctChange(latest'.avg_price, previous'.avg_price)
    /\ qoq_volume' = PctChange(latest'.volume, previous'.volume)
    /\ year_ago' = YearAgo(grouped)
    /\ yoy_price' = PctChange(latest'.avg_price, year_ago'.avg_price)
    /\ yoy_volume' = PctChange(latest'.volume, year_ago'.volume)
    /\ offplan_pct' = OffplanShare(df_filtered, grouped)
    /\ messages' = Append(messages, Show("info", <<"Latest quarter off-plan">>))
    /\ steps' = steps \cup {"changes"}
    /\ pc' = "changes"
    /\ UNCHANGED <<transactions, csv, formVars, df_filtered, grouped, tagVars, pattern,
                   callVars>>

\* lines 137-149
ClassifyTags ==
    /\ pc = "changes"
    /\ tag_qoq_price' = classify_change(qoq_price)
    /\ tag_yoy_price' = classify_change(yoy_price)
    /\ tag_qoq_vol' = classify_change(qoq_volume)
    /\ tag_yoy_vol' = classify_change(yoy_volume)
    /\ tag_offplan' = classify_offplan(offplan_pct)
    /\ messages' = Append(messages, Show("subheader", <<"Market Summary Trends">>))
    /\ steps' = steps \cup {"tags"}
    /\ pc' = "tags"
    /\ UNCHANGED <<transactions, csv, formVars, df_filtered, grouped, signalVars, pattern,
                   callVars>>

\* lines 151-180
ShowPattern ==
    /\ pc = "tags"
    /\ pattern' = get_pattern_insight(qoq_price, yoy_price, qoq_volume, yoy_volume, offplan_pct)
    /\ messages' =
          messages
          \o (IF pattern'.found
              THEN <<Show("subheader", <<"Recommendation">>),
                     Show("insight", InsightOf(pattern'.row, view_mode)),
                     Show("recommendation", RecommendationOf(pattern'.row, view_mode))>>
              ELSE <<Show("warning", <<"No matching pattern found for current market tags.">>)>>)
          \o <<Show("plotly_chart", <<"Quarterly Avg Price (AED)">>)>>
    /\ steps' = steps \cup {"lookup"}
    /\ pc' = "done"
    /\ UNCHANGED <<transactions, csv, formVars, df_filtered, grouped, signalVars, tagVars,
                   callVars>>

Next ==
    \/ \E sel \in Selections, max_price \in Budgets, view \in ViewModes :
          RunAnalysis(sel[1], sel[2], sel[3], max_price, view)
    \/ NotEnoughData
    \/ Aggregate
    \/ NotEnoughQuarters
    \/ ComputeChanges
    \/ ClassifyTags
    \/ ShowPattern

Spec == Init /\ [][Next]_vars

(***************************************************************************)
(* Direct calls of the classifiers                                         *)
(***************************************************************************)
MaxNum == 30

MaxDen == 4

MaxShareDen == 10

ChangeInputs ==
    {Fin(n, d) : n \in (-MaxNum)..MaxNum, d \in 1..MaxDen} \cup {PosInf, NegInf}

ShareInputs == UNION {{Fin(k, n) : k \in 0..n} : n \in 1..MaxShareDen}

SteadyParquet == Parquet([q \in 1..NumQuarters |-> "steady"], 0)

InitClassify ==
    /\ transactions = SteadyParquet
    /\ csv = PatternMatrix
    /\ Fresh
    /\ \/ fn = "classify_change" /\ arg \in ChangeInputs
       \/ fn = "classify_offplan" /\ arg \in ShareInputs
    /\ ret = <<>>

CallClassifyChange ==
    /\ fn = "classify_change"
    /\ ret = <<>>
    /\ ret' = <<classify_change(arg)>>
    /\ UNCHANGED <<transactions, csv, pc, formVars, df_filtered, grouped, signalVars, tagVars,
                   pattern, messages, steps, fn, arg>>

CallClassifyOffplan ==
    /\ fn = "classify_offplan"
    /\ ret = <<>>
    /\ ret' = <<classify_offplan(arg)>>
    /\ UNCHANGED <<transactions, csv, pc, formVars, df_filtered, grouped, signalVars, tagVars,
                   pattern, messages, steps, fn, arg>>

NextClassify == CallClassifyChange \/ CallClassifyOffplan

SpecClassify == InitClassify /\ [][NextClassify]_vars

(***************************************************************************)
(* Direct calls of the pattern lookup                                      *)
(***************************************************************************)
MaxRows == 3

MaxLen == 2

\* the five tag cells of a rule row
Key(r) == <<r.QoQ_Price, r.YoY_Price, r.QoQ_Volume, r.YoY_Vol, r.Offplan_Level>>

RuleKeys ==
    {<<"Up", "Up", "Up", "Up", "High">>,
     <<"Flat", "Up", "Up", "Up", "High">>,
     <<"Up", "Down", "Up", "Up", "High">>,
     <<"Up", "Up", "Flat", "Up", "High">>,
     <<"Up", "Up", "Up", "Down", "High">>,
     <<"Up", "Up", "Up", "Up", "Medium">>,
     <<"up", "Up", "Up", "Up", "High">>}

RowNames == <<"a", "b", "c", "d", "e", "f">>

\* tables whose rows differ in their tag cells; the text names the row
KeyTables ==
    UNION {{[i \in 1..n |-> Rule(ks[i][1], ks[i][2], ks[i][3], ks[i][4], ks[i][5], RowNames[i])] :
               ks \in [1..n -> RuleKeys]} : n \in 0..MaxRows}

Chars == {"\\", "n", "\n", "x"}

Strings == UNION {[1..n -> Chars] : n \in 0..MaxLen}

TextRule(k, ii, ri, ie, re) ==
    [QoQ_Price |-> k[1], YoY_Price |-> k[2], QoQ_Volume |-> k[3], YoY_Vol |-> k[4],
     Offplan_Level |-> k[5],
     Insight_Investor |-> ii, Recommendation_Investor |-> ri,
     Insight_EndUser |-> ie, Recommendation_EndUser |-> re]

UpHigh == <<"Up", "Up", "Up", "Up", "High">>

\* one-row tables whose text cells vary
TextTables ==
    {<<TextRule(UpHigh, Text(s), Text(t), Text(t \o s), Text(s \o t))>> : s, t \in Strings}
    \cup {<<TextRule(UpHigh, NullCell, Text(s), NullCell, Text(s))>> : s \in Strings}

\* the numeric signals of a call: one per tag a signal classifies to
Signals ==
    {<<Fin(10, 1), Fin(10, 1), Fin(10, 1), Fin(10, 1), Fin(3, 4)>>,
     <<Fin(5, 1), Fin(10, 1), Fin(10, 1), Fin(10, 1), Fin(3, 4)>>,
     <<Fin(10, 1), Fin(-10, 1), Fin(10, 1), Fin(10, 1), Fin(3, 4)>>,
     <<Fin(10, 1), Fin(10, 1), NaN, Fin(10, 1), Fin(3, 4)>>,
     <<Fin(10, 1), Fin(10, 1), Fin(10, 1), NegInf, Fin(3, 4)>>,
     <<PosInf, Fin(10, 1), Fin(10, 1), Fin(10, 1), Fin(1, 2)>>,
     <<Fin(0, 1), Fin(0, 1), Fin(0, 1), Fin(0, 1), Fin(0, 1)>>}

InitPattern ==
    /\ transactions = SteadyParquet
    /\ csv \in KeyTables \cup TextTables
    /\ Fresh
    /\ fn = "get_pattern_insight"
    /\ arg \in Signals
    /\ ret = <<>>

CallGetPatternInsight ==
    /\ fn = "get_pattern_insight"
    /\ ret = <<>>
    /\ ret' = <<get_pattern_insight(arg[1], arg[2], arg[3], arg[4], arg[5])>>
    /\ UNCHANGED <<transactions, csv, pc, formVars, df_filtered, grouped, signalVars, tagVars,
                   pattern, messages, steps, fn, arg>>

NextPattern == CallGetPatternInsight

SpecPattern == InitPattern /\ [][NextPattern]_vars

(***************************************************************************)
(* Properties                                                              *)
(***************************************************************************)
Shown(kind, text) == \E i \in 1..Len(messages) : messages[i] = Show(kind, text)

ShownKind(kind) == \E i \in 1..Len(messages) : messages[i].kind = kind

\* the ways a run ends, as the page reports them
InsufficientData ==
    \/ Shown("warning", <<"Not enough data to calculate trends.">>)
    \/ Shown("warning", <<"Not enough quarterly data.">>)

NoPatternMatch == Shown("warning", <<"No matching pattern found for current market tags.">>)

PatternMatched == Shown("subheader", <<"Recommendation">>)

Ended == pc \in {"stopped", "done"}

IsZero(a) == IsFinite(a) /\ a.n = 0

TagsUnset ==
    /\ tag_qoq_price = "" /\ tag_yoy_price = "" /\ tag_qoq_vol = "" /\ tag_yoy_vol = ""
    /\ tag_offplan = ""

SignalsUnset ==
    /\ qoq_price = NaN /\ qoq_volume = NaN /\ yoy_price = NaN /\ yoy_volume = NaN
    /\ offplan_pct = NaN
    /\ latest = NoBucket /\ previous = NoBucket /\ year_ago = NoBucket

ZeroReference ==
    \/ IsZero(previous.avg_price) \/ IsZero(previous.volume)
    \/ IsZero(year_ago.avg_price) \/ IsZero(year_ago.volume)

\* C1: in a run that reaches the change computation, a previous or year-ago
\* bucket with avg_price = 0 or count = 0 ends the run in a DivisionByZero
\* outcome: no infinite or NaN change is classified, and no tag or pattern lookup
\* comes from such a change.
C1_DivisionByZeroReported ==
    /\ ("changes" \in steps /\ ZeroReference) =>
          /\ TagsUnset
          /\ "lookup" \notin steps
          /\ Ended => ShownKind("DivisionByZero")
    /\ "tags" \in steps =>
          /\ IsFinite(qoq_price) /\ IsFinite(qoq_volume)
          /\ IsFinite(yoy_price) /\ IsFinite(yoy_volume)

\* yoy = ((l - r) / r) * 100 for the averages l and r, in exact arithmetic
IsPctChange(x, l, r) ==
    IsFinite(x) /\ x.n * (l.d * r.n) = 100 * (l.n * r.d - r.n * l.d) * x.d

\* C2: the year-ago reference of yoy_price and yoy_volume is the bucket 4
\* positions before the latest one when there are at least 5 buckets, and the
\* previous bucket otherwise; with 2 to 4 buckets yoy_price and yoy_volume are
\* the very values of qoq_price and qoq_volume.
C2_YearAgoReference ==
    "changes" \in steps =>
        LET n == Len(grouped)
            ref == IF n >= 5 THEN grouped[n - 4] ELSE grouped[n - 1]
        IN  /\ n >= 2
            /\ latest = grouped[n]
            /\ year_ago = ref
            /\ ~IsZero(ref.avg_price) => IsPctChange(yoy_price, grouped[n].avg_price, ref.avg_price)
            /\ ~IsZero(ref.volume) => IsPctChange(yoy_volume, grouped[n].volume, ref.volume)
            /\ n <= 4 => yoy_price = qoq_price /\ yoy_volume = qoq_volume

C2_Witness ==
    /\ "changes" \in steps
    /\ Len(grouped) >= 5
    /\ year_ago.quarter = grouped[Len(grouped) - 4].quarter
    /\ yoy_price # qoq_price
    /\ yoy_volume # qoq_volume
    /\ IsFinite(yoy_price) /\ IsFinite(qoq_price)

\* C3: with fewer than 10 filtered records the run ends as insufficient data
\* before anything is aggregated, computed, classified or looked up; with fewer
\* than 2 quarterly buckets it ends as insufficient data with no change, tag or
\* lookup computed.
C3_InsufficientDataStops ==
    /\ (pc \notin {"idle", "filtered"} /\ Len(df_filtered) < 10) =>
          /\ pc = "stopped"
          /\ Shown("warning", <<"Not enough data to calculate trends.">>)
          /\ steps = {"filter"}
          /\ grouped = <<>> /\ SignalsUnset /\ TagsUnset /\ pattern = None
    /\ (pc \notin {"idle", "filtered", "aggregated"} /\ Len(df_filtered) >= 10
          /\ Len(grouped) < 2) =>
          /\ pc = "done"
          /\ Shown("warning", <<"Not enough quarterly data.">>)
          /\ steps = {"filter", "aggregate"}
          /\ SignalsUnset /\ TagsUnset /\ pattern = None

C3_Witness == pc = "stopped" /\ Len(df_filtered) = 9 /\ InsufficientData

\* the calendar quarters of the rows of df that have a date
QuartersOf(df) == {df[i].instance_date.q : i \in {j \in 1..Len(df) : ~df[j].instance_date.nat}}

\* C7: the buckets are exactly the calendar quarters that hold a filtered record
\* with a parsable date, one bucket each, in strictly ascending order: gaps are
\* not padded and undated records make no bucket.
C7_OneBucketPerQuarter ==
    "aggregate" \in steps =>
        /\ {grouped[i].quarter : i \in 1..Len(grouped)} = QuartersOf(df_filtered)
        /\ \A i, j \in 1..Len(grouped) : i < j => grouped[i].quarter < grouped[j].quarter

C7_Witness ==
    /\ "aggregate" \in steps
    /\ Len(grouped) = 3
    /\ \E q \in 2..(NumQuarters - 1) :
          /\ q \notin QuartersOf(df_filtered)
          /\ q - 1 \in QuartersOf(df_filtered)
          /\ q + 1 \in QuartersOf(df_filtered)
    /\ \E i \in 1..Len(df_filtered) : df_filtered[i].instance_date.nat

Tags == <<tag_qoq_price, tag_yoy_price, tag_qoq_vol, tag_yoy_vol, tag_offplan>>

\* the rows of the matrix whose five tag cells equal the tags
MatchingRows(tags) == {i \in 1..Len(csv) : Key(csv[i]) = tags}

\* C8: a run ends in exactly one of insufficient data, pattern matched (the
\* text of the matched row for the selected audience is shown) and no pattern
\* match; no match is reported only after the five tags were computed from at
\* least 2 buckets and no row matched.
C8_OneOutcome ==
    /\ pc \in {"filtered", "aggregated", "changes", "tags"} => ENABLED Next
    /\ ~Ended => ~InsufficientData /\ ~NoPatternMatch /\ ~PatternMatched
    /\ Ended =>
          /\ \/ InsufficientData /\ ~NoPatternMatch /\ ~PatternMatched
             \/ ~InsufficientData /\ NoPatternMatch /\ ~PatternMatched
             \/ ~InsufficientData /\ ~NoPatternMatch /\ PatternMatched
          /\ InsufficientData => (Len(df_filtered) < 10 \/ Len(grouped) < 2) /\ TagsUnset
          /\ NoPatternMatch =>
                /\ "tags" \in steps /\ ~TagsUnset /\ Len(grouped) >= 2
                /\ "lookup" \in steps /\ MatchingRows(Tags) = {}
          /\ PatternMatched =>
                /\ MatchingRows(Tags) # {}
                /\ \E i \in MatchingRows(Tags) :
                      /\ view_mode = "Investor" =>
                            /\ Shown("insight", Unescape(csv[i].Insight_Investor))
                            /\ Shown("recommendation", Unescape(csv[i].Recommendation_Investor))
                      /\ view_mode = "EndUser" =>
                            /\ Shown("insight", Unescape(csv[i].Insight_EndUser))
                            /\ Shown("recommendation", Unescape(csv[i].Recommendation_EndUser))

C8_Witness == Ended /\ NoPatternMatch /\ view_mode = "EndUser" /\ Len(grouped) = 2

\* C10: offplan_pct is the number of filtered records dated in the latest
\* bucket's quarter that are registered "Off-Plan Properties", divided by the
\* number of filtered records dated in that quarter, which is at least 1.
C10_OffplanShare ==
    "changes" \in steps =>
        LET q == grouped[Len(grouped)].quarter
            rows == {i \in 1..Len(df_filtered) :
                        ~df_filtered[i].instance_date.nat /\ df_filtered[i].instance_date.q = q}
            off == {i \in rows : df_filtered[i].reg_type_en = "Off-Plan Properties"}
        IN  /\ Cardinality(rows) >= 1
            /\ offplan_pct = Fin(Cardinality(off), Cardinality(rows))
            /\ FLe(Fin(0, 1), offplan_pct) /\ FLe(offplan_pct, Fin(1, 1))

C10_Witness ==
    /\ "changes" \in steps
    /\ offplan_pct = Fin(1, 4)
    /\ \E i \in 1..Len(df_filtered) :
          /\ df_filtered[i].reg_type_en = OffPlan
          /\ ~df_filtered[i].instance_date.nat
          /\ df_filtered[i].instance_date.q # latest.quarter

\* the tags a call's five numbers classify to
ArgTags ==
    <<classify_change(arg[1]), classify_change(arg[2]), classify_change(arg[3]),
      classify_change(arg[4]), classify_offplan(arg[5])>>

\* C4: get_pattern_insight returns the first row, in table order, whose five
\* tag cells all equal the tags, and None exactly when no row does.
C4_FirstMatchingRow ==
    (fn = "get_pattern_insight" /\ ret # <<>>) =>
        LET m == MatchingRows(ArgTags)
        IN  /\ ret[1].found <=> m # {}
            /\ m = {} => ret[1] = None
            /\ m # {} =>
                  LET first == CHOOSE i \in m : \A j \in m : i <= j
                  IN  /\ Key(ret[1].row) = ArgTags
                      /\ ret[1].row.Insight_Investor = Unescape(csv[first].Insight_Investor)
                      /\ ret[1].row.Recommendation_Investor =
                            Unescape(csv[first].Recommendation_Investor)
                      /\ ret[1].row.Insight_EndUser = Unescape(csv[first].Insight_EndUser)
                      /\ ret[1].row.Recommendation_EndUser =
                            Unescape(csv[first].Recommendation_EndUser)

C4_Witness ==
    /\ fn = "get_pattern_insight" /\ ret # <<>>
    /\ MatchingRows(ArgTags) = {2, 3}
    /\ ret[1].found
    /\ ret[1].row.Recommendation_EndUser = <<"b", "R">>
    /\ \E c \in 1..5 : csv[1][<<"QoQ_Price", "YoY_Price", "QoQ_Volume", "YoY_Vol",
                                "Offplan_Level">>[c]] = ArgTags[c]

\* C5: classify_change(x) is "Up" iff x > 5, "Down" iff x < -5 and "Flat" iff
\* -5 <= x <= 5, so 5 and -5 are "Flat", and it is always one of the three.
C5_ClassifyChange ==
    (fn = "classify_change" /\ ret # <<>>) =>
        LET gt5 == arg.k = "inf" \/ (arg.k = "fin" /\ arg.n > 5 * arg.d)
            ltm5 == arg.k = "ninf" \/ (arg.k = "fin" /\ arg.n < (-5) * arg.d)
            mid == arg.k = "fin" /\ (-5) * arg.d <= arg.n /\ arg.n <= 5 * arg.d
        IN  /\ ret[1] \in {"Up", "Down", "Flat"}
            /\ ret[1] = "Up" <=> gt5
            /\ ret[1] = "Down" <=> ltm5
            /\ ret[1] = "Flat" <=> mid

C5_Witness ==
    /\ fn = "classify_change" /\ ret = <<"Flat">>
    /\ arg.n = 5 * arg.d /\ arg.d > 1

\* C6: for p in [0,1], classify_offplan(p) is "High" iff p > 0.5, "Medium" iff
\* 0.2 < p <= 0.5 and "Low" iff p <= 0.2, so 0.5 is "Medium" and 0.2 is "Low".
C6_ClassifyOffplan ==
    (fn = "classify_offplan" /\ ret # <<>>) =>
        /\ ret[1] = "High" <=> 2 * arg.n > arg.d
        /\ ret[1] = "Medium" <=> (5 * arg.n > arg.d /\ 2 * arg.n <= arg.d)
        /\ ret[1] = "Low" <=> 5 * arg.n <= arg.d

C6_Witness ==
    /\ fn = "classify_offplan" /\ ret = <<"Low">>
    /\ 5 * arg.n = arg.d /\ arg.n > 1

\* no backslash followed by n is left in x
NoEscape(x) == \A i \in 1..(Len(x) - 1) : ~(x[i] = "\\" /\ x[i + 1] = "n")

\* x with every line break written as backslash, n
RECURSIVE ReEscape(_)
ReEscape(x) ==
    IF x = <<>> THEN <<>>
    ELSE IF Head(x) = "\n" THEN <<"\\", "n">> \o ReEscape(Tail(x))
    ELSE <<Head(x)>> \o ReEscape(Tail(x))

\* shown is the source text with each backslash-n pair turned into a line break
Unescaped(source, shown) ==
    \/ source.null
    \/ /\ NoEscape(shown)
       /\ ReEscape(shown) = ReEscape(source.s)
       /\ Len(shown) <= Len(source.s)

\* C9: in a row returned by a lookup, each of the four text fields is the
\* table's text with every backslash-n pair replaced by a line break, so none
\* is left in the text of either audience.
C9_NewlinesUnescaped ==
    (fn = "get_pattern_insight" /\ ret # <<>> /\ ret[1].found) =>
        LET first == CHOOSE i \in MatchingRows(ArgTags) : \A j \in MatchingRows(ArgTags) : i <= j
        IN  /\ Unescaped(csv[first].Insight_Investor, ret[1].row.Insight_Investor)
            /\ Unescaped(csv[first].Recommendation_Investor, ret[1].row.Recommendation_Investor)
            /\ Unescaped(csv[first].Insight_EndUser, ret[1].row.Insight_EndUser)
            /\ Unescaped(csv[first].Recommendation_EndUser, ret[1].row.Recommendation_EndUser)

C9_Witness ==
    /\ fn = "get_pattern_insight" /\ ret # <<>> /\ ret[1].found
    /\ csv[1].Insight_EndUser = Text(<<"\\", "n", "\\", "n">>)
    /\ ret[1].row.Insight_EndUser = <<"\n", "\n">>
    /\ ret[1].row.Insight_Investor = <<"\n">>

====
